---- MODULE Spec2Model ----
(***************************************************************************)
(* pcap2har: PcapParser.parse (src/pcap.py), http.Flow (src/http/flow.py)  *)
(* and HttpSession / Entry (src/pcap2har/httpsession.py).                  *)
(*                                                                         *)
(* Timestamps are dpkt timestamps in whole seconds (Python floats in the   *)
(* program); None is Python's None.  Timings are milliseconds, with -1 for *)
(* "unknown".  Sequences are 1-based here, 0-based in the program.         *)
(*                                                                         *)
(* HttpSession calls http.Flow(flow, drop_response_bodies); the Flow of    *)
(* src/http/flow.py takes the tcp flow alone.  drop_response_bodies only   *)
(* changes what is stored of a body, so the constructor is modelled on the *)
(* tcp flow.  User-agent counting reads request headers only and is kept   *)
(* as the count of requests that carry the header.                         *)
(***************************************************************************)
EXTENDS Integers, Sequences, FiniteSets, TLC

VARIABLES
    \* ---- PcapParser.parse (src/pcap.py) ----
    packets,        \* the records the reader has delivered so far, in order
    packet_count,   \* the local packet_count
    perrors,        \* PcapParser.errors
    dispatched,     \* the calls dispatcher.add received: positions in packets
    ppc,            \* "loop" | "done"
    \* ---- HttpSession.__init__ (src/pcap2har/httpsession.py) ----
    keep_unfulfilled_requests,  \* settings.keep_unfulfilled_requests
    process_pages,              \* settings.process_pages
    flow,           \* the loop variable of line 180: the tcp flow last handed to http.Flow
    nflows,         \* number of tcp flows the loop of line 180 has taken
    flows,          \* self.flows: each http.Flow is its list of pairs
    errors,         \* self.errors
    user_agents,    \* number of requests seen with a user-agent header
    page_tracker,   \* [on, pages]: on is FALSE for None; pages are the ids created
    entries,        \* self.entries
    dns,            \* packetdispatcher.udp.dns.by_hostname
    names_mentioned,
    page_times,     \* the dict of line 220, as a function on the keys it holds
    network_load_time, \* page id -> network_load_time written by line 241
    ei,             \* number of entries the loop of line 221 has handled
    pc,             \* "flows" | "dns" | "done" | "raised"
    exc             \* the exception that left __init__, "" when none

pvars == <<packets, packet_count, perrors, dispatched, ppc>>
svars == <<keep_unfulfilled_requests, process_pages, flow, nflows, flows, errors,
           user_agents, page_tracker, entries, dns, names_mentioned, page_times,
           network_load_time, ei, pc, exc>>
vars == <<pvars, svars>>

-----------------------------------------------------------------------------
(* Bounds of the model *)

\* frames read from the capture
MaxPackets == 4
\* tcp flows handed to HttpSession
MaxFlows == 3
\* messages in one direction of a flow of the session
MaxMsgs == 2
\* largest timestamp (seconds)
MaxTs == 2
\* request/response pairs of all the flows of one session
MaxPairs == 3
\* DNS queries indexed under one hostname
MaxQueries == 2

-----------------------------------------------------------------------------
(* Python values *)

\* Python's None where a timestamp is expected
None == -1
\* the "unknown" timing of Entry
Unknown == -1
\* the None of MessagePair.response
NoResponse == [flow |-> 0, pos |-> 0, ts_start |-> None, ts_end |-> None]
\* entry.pageref when no page tracker assigned one
NoPage == "None"

Hosts == {"x", "y"}
Pages == {"page_0", "page_1"}

Min(a, b) == IF a <= b THEN a ELSE b
Max(a, b) == IF a >= b THEN a ELSE b
Range(s) == {s[i] : i \in DOMAIN s}

RECURSIVE Concat(_)
Concat(ss) == IF ss = <<>> THEN <<>> ELSE Head(ss) \o Concat(Tail(ss))

RECURSIVE SumSeq(_)
SumSeq(s) == IF s = <<>> THEN 0 ELSE Head(s) + SumSeq(Tail(s))

-----------------------------------------------------------------------------
(* pcaputil (not among the source files): milliseconds from dpkt times *)

MsPerSecond == 1000

ms_from_dpkt_time(td) == IF td = None THEN Unknown ELSE td * MsPerSecond

ms_from_dpkt_time_diff(td1, td2) ==
    IF td1 = None \/ td2 = None THEN Unknown ELSE ms_from_dpkt_time(td1 - td2)

-----------------------------------------------------------------------------
(* src/http/flow.py *)

\* A TCPDirection is [kind, msgs]: kind says what the bytes hold ("empty": no
\* data; "req": HTTP requests; "resp": HTTP responses; "junk": bytes dpkt
\* cannot unpack; "err": bytes on which the message class raises an error
\* other than dpkt.UnpackError), msgs the messages the bytes frame.

\* gather_messages: the messages, or the exception the message class raises
gather_messages(MessageClass, tcpdir) ==
    IF tcpdir.kind = "empty" THEN [exc |-> "", msgs |-> <<>>]
    ELSE IF tcpdir.kind = MessageClass THEN [exc |-> "", msgs |-> tcpdir.msgs]
    ELSE IF tcpdir.kind = "err" THEN [exc |-> "http.Error", msgs |-> <<>>]
    ELSE [exc |-> "dpkt.UnpackError", msgs |-> <<>>]

\* parse_streams: (success, requests, responses); an exception other than
\* dpkt.UnpackError leaves the function
parse_streams(request_stream, response_stream) ==
    LET rq == gather_messages("req", request_stream)
        rs == gather_messages("resp", response_stream)
        e  == IF rq.exc # "" THEN rq.exc ELSE rs.exc
    IN  IF e = "" THEN [exc |-> "", success |-> TRUE,
                        requests |-> rq.msgs, responses |-> rs.msgs]
        ELSE IF e = "dpkt.UnpackError"
             THEN [exc |-> "", success |-> FALSE, requests |-> <<>>, responses |-> <<>>]
        ELSE [exc |-> e, success |-> FALSE, requests |-> <<>>, responses |-> <<>>]

\* find_index(f, seq): f is the predicate as a function on the items of seq;
\* 0 stands for the LookupError
find_index(f, seq) ==
    IF \E i \in 1..Len(seq) : f[seq[i]]
    THEN CHOOSE i \in 1..Len(seq) : f[seq[i]] /\ \A k \in 1..(i-1) : ~f[seq[k]]
    ELSE 0

MessagePair(request, response) == [request |-> request, response |-> response]

\* zip(a, b)
Zip(a, b) == [i \in 1..Min(Len(a), Len(b)) |-> MessagePair(a[i], b[i])]

\* the responses[first_response_index:] of line 31, padded by lines 32-34
PairableResponses(requests, responses, first_response_index) ==
    LET tail == SubSeq(responses, first_response_index, Len(responses))
    IN  IF Len(requests) > Len(tail)
        THEN tail \o [i \in 1..(Len(requests) - Len(tail)) |-> NoResponse]
        ELSE tail

\* lines 26-42 of Flow.__init__: self.pairs.  requests[0] is read only when
\* the predicate is called, that is when responses is not empty; the
\* IndexError it raises on an empty requests is a LookupError.
FlowPairs(requests, responses) ==
    IF responses = <<>> \/ requests = <<>> THEN <<>>
    ELSE LET f == [response \in Range(responses) |->
                      response.ts_start > requests[1].ts_start]
             first_response_index == find_index(f, responses)
         IN  IF first_response_index = 0 THEN <<>>
             ELSE LET pairable_responses ==
                          PairableResponses(requests, responses, first_response_index)
                  IN  Zip(requests, responses)

\* Flow.__init__: [exc, pairs].  HTTPError is not a name of flow.py (it
\* imports dpkt, Request and Response only), so the raise of line 23 is a
\* NameError.
Flow(tcpflow) ==
    LET first == parse_streams(tcpflow.fwd, tcpflow.rev)
        second == parse_streams(tcpflow.rev, tcpflow.fwd)
    IN  IF first.exc # "" THEN [exc |-> first.exc, pairs |-> <<>>]
        ELSE IF first.success
             THEN [exc |-> "", pairs |-> FlowPairs(first.requests, first.responses)]
        ELSE IF second.exc # "" THEN [exc |-> second.exc, pairs |-> <<>>]
        ELSE IF second.success
             THEN [exc |-> "", pairs |-> FlowPairs(second.requests, second.responses)]
        ELSE [exc |-> "NameError", pairs |-> <<>>]

-----------------------------------------------------------------------------
(* src/pcap2har/httpsession.py: Entry *)

\* Entry.__init__
Entry(request, response) ==
    [request |-> request,
     response |-> response,
     pageref |-> NoPage,
     ts_start |-> ms_from_dpkt_time(request.ts_connect),
     time_blocked |-> Unknown,
     time_dnsing |-> Unknown,
     time_connecting |-> ms_from_dpkt_time_diff(request.ts_connect_end, request.ts_connect),
     time_gap |-> ms_from_dpkt_time_diff(request.ts_start, request.ts_connect_end),
     time_sending |-> ms_from_dpkt_time_diff(request.ts_end, request.ts_start),
     time_waiting |-> IF response # NoResponse
                      THEN ms_from_dpkt_time_diff(response.ts_start, request.ts_end)
                      ELSE Unknown,
     time_receiving |-> IF response # NoResponse
                        THEN ms_from_dpkt_time_diff(response.ts_end, response.ts_start)
                        ELSE Unknown,
     \* "if request.ts_connect:" is false for None and for 0
     time |-> IF response # NoResponse /\ request.ts_connect # None /\ request.ts_connect # 0
              THEN ms_from_dpkt_time_diff(response.ts_end, request.ts_connect)
              ELSE Unknown,
     total_time |-> Unknown]

\* add_dns keeping the last query alone
add_dns_last(entry, duration) ==
    [entry EXCEPT !.time_dnsing = ms_from_dpkt_time(duration)]

\* Entry.add_dns, on the duration of the dns query
add_dns(entry, duration) ==
    IF entry.time_dnsing = Unknown
    THEN [entry EXCEPT !.time_dnsing = ms_from_dpkt_time(duration)]
    ELSE [entry EXCEPT !.time_dnsing = entry.time_dnsing + ms_from_dpkt_time(duration)]

\* Entry.calc_total_time
calc_total_time(entry) ==
    LET t0 == entry.time
        t1 == IF entry.time_dnsing # Unknown /\ t0 # Unknown
              THEN t0 + entry.time_dnsing ELSE t0
        t2 == IF entry.time_blocked # Unknown /\ t1 # Unknown
              THEN t1 + entry.time_blocked ELSE t1
    IN  [entry EXCEPT !.total_time = t2]

-----------------------------------------------------------------------------
(* src/pcap2har/httpsession.py: HttpSession.__init__ *)

\* an order of the keys that puts None behind every number
KeyLess_NoneLast(a, b) ==
    IF b = None THEN a # None
    ELSE a # None /\ a < b

\* Python 2's "<" on the sort keys of line 200: None is smaller than every number
KeyLess(a, b) ==
    IF a = None THEN b # None
    ELSE b # None /\ a < b

\* one step of the stable sort: msg goes behind every pair whose key is not
\* greater than its own
RECURSIVE SortedInsert(_, _)
SortedInsert(sorted, msg) ==
    IF sorted = <<>> THEN <<msg>>
    ELSE IF KeyLess(msg.request.ts_connect, Head(sorted).request.ts_connect)
         THEN <<msg>> \o sorted
    ELSE <<Head(sorted)>> \o SortedInsert(Tail(sorted), msg)

\* pairs.sort(key=lambda pair: pair.request.ts_connect), lines 199-201
RECURSIVE SortPairs(_)
SortPairs(ps) ==
    IF ps = <<>> THEN <<>>
    ELSE SortedInsert(SortPairs(SubSeq(ps, 1, Len(ps) - 1)), ps[Len(ps)])

\* line 212: the entry is kept
Retained(entry, keep) == entry.response # NoResponse \/ keep

\* the loop of lines 203-213 over the sorted pairs; refs[i] is what
\* page_tracker.getref returns for the i-th pair
RECURSIVE BuildEntriesFrom(_, _, _, _, _)
BuildEntriesFrom(ps, i, refs, tracking, keep) ==
    IF i > Len(ps) THEN <<>>
    ELSE LET entry0 == Entry(ps[i].request, ps[i].response)
             entry == IF tracking THEN [entry0 EXCEPT !.pageref = refs[i]] ELSE entry0
         IN  (IF Retained(entry, keep) THEN <<entry>> ELSE <<>>)
             \o BuildEntriesFrom(ps, i + 1, refs, tracking, keep)

\* the requests with a user-agent header, lines 206-207
CountUserAgents(ps) == Cardinality({i \in 1..Len(ps) : ps[i].request.user_agent})

\* lines 224-230 for one entry: the dns time of the first mention of a name
RECURSIVE AddAllDns(_, _)
AddAllDns(entry, queries) ==
    IF queries = <<>> THEN entry
    ELSE AddAllDns(add_dns(entry, Head(queries)), Tail(queries))

AttachDns(entry, mentioned, by_hostname) ==
    LET name == entry.request.host
    IN  IF name \notin mentioned /\ name \in DOMAIN by_hostname
        THEN AddAllDns(entry, by_hostname[name])
        ELSE entry

\* lines 233-235: the page_times dict after one entry
UpdatePageTimes(pt, entry) ==
    LET key == entry.pageref
        p_time == IF key \in DOMAIN pt THEN pt[key] ELSE <<entry.ts_start, 0>>
        new == <<Min(p_time[1], entry.ts_start),
                 Max(p_time[2], entry.ts_start + entry.total_time)>>
    IN  [k \in (DOMAIN pt) \cup {key} |-> IF k = key THEN new ELSE pt[k]]

\* the tcp flow with its messages tagged by the flow's number: the identity
\* of the message objects
RECURSIVE TagMsgs(_, _)
TagMsgs(msgs, n) ==
    IF msgs = <<>> THEN <<>>
    ELSE <<[Head(msgs) EXCEPT !.flow = n]>> \o TagMsgs(Tail(msgs), n)

TagFlow(tf, n) ==
    [fwd |-> [kind |-> tf.fwd.kind, msgs |-> TagMsgs(tf.fwd.msgs, n)],
     rev |-> [kind |-> tf.rev.kind, msgs |-> TagMsgs(tf.rev.msgs, n)]]

NoFlow == [fwd |-> [kind |-> "empty", msgs |-> <<>>],
           rev |-> [kind |-> "empty", msgs |-> <<>>]]

\* one turn of the loop of lines 180-188 on the tcp flow tf
ParseFlow(tf) ==
    /\ pc = "flows"
    /\ nflows < MaxFlows
    /\ LET tagged == TagFlow(tf, nflows + 1)
           f == Flow(tagged)
       IN  /\ Len(Concat(flows)) + Len(f.pairs) <= MaxPairs
           /\ flow' = tagged
           /\ nflows' = nflows + 1
           /\ IF f.exc = ""
              THEN /\ flows' = Append(flows, f.pairs)
                   /\ UNCHANGED <<errors, pc, exc>>
              ELSE IF f.exc = "http.Error"
              THEN /\ errors' = Append(errors, f.exc)
                   /\ UNCHANGED <<flows, pc, exc>>
              ELSE /\ pc' = "raised"
                   /\ exc' = f.exc
                   /\ UNCHANGED <<flows, errors>>
    /\ UNCHANGED <<keep_unfulfilled_requests, process_pages, user_agents, page_tracker,
                   entries, dns, names_mentioned, page_times, network_load_time, ei>>
    /\ UNCHANGED pvars

\* lines 189-220, once the flows are exhausted: the pairs are combined and
\* sorted, the entries built; by_hostname is the dns index of the dispatcher,
\* refs the page ids getref returns
BuildEntries(by_hostname, refs) ==
    /\ pc = "flows"
    /\ LET pairs == SortPairs(Concat(flows))
       IN  /\ DOMAIN refs = 1..Len(pairs)
           /\ user_agents' = CountUserAgents(pairs)
           /\ page_tracker' = [on |-> process_pages,
                               pages |-> IF process_pages THEN Range(refs) ELSE {}]
           /\ entries' = BuildEntriesFrom(pairs, 1, refs, process_pages,
                                          keep_unfulfilled_requests)
    /\ dns' = by_hostname
    /\ names_mentioned' = {}
    /\ page_times' = <<>>
    /\ ei' = 0
    /\ pc' = "dns"
    /\ UNCHANGED <<keep_unfulfilled_requests, process_pages, flow, nflows, flows, errors,
                   network_load_time, exc>>
    /\ UNCHANGED pvars

\* one turn of the loop of lines 221-235
DnsStep ==
    /\ pc = "dns"
    /\ ei < Len(entries)
    /\ LET entry == calc_total_time(AttachDns(entries[ei + 1], names_mentioned, dns))
       IN  /\ entries' = [entries EXCEPT ![ei + 1] = entry]
           /\ names_mentioned' = names_mentioned \cup {entry.request.host}
           /\ page_times' = UpdatePageTimes(page_times, entry)
    /\ ei' = ei + 1
    /\ UNCHANGED <<keep_unfulfilled_requests, process_pages, flow, nflows, flows, errors,
                   user_agents, page_tracker, dns, network_load_time, pc, exc>>
    /\ UNCHANGED pvars

\* lines 238-241; self.page_tracker is None when pages are not processed, and
\* None has no attribute pages
WritePages ==
    /\ pc = "dns"
    /\ ei = Len(entries)
    /\ IF page_tracker.on
       THEN /\ network_load_time' =
                   [p \in page_tracker.pages \cap DOMAIN page_times |->
                       page_times[p][2] - page_times[p][1]]
            /\ pc' = "done"
            /\ exc' = ""
       ELSE /\ pc' = "raised"
            /\ exc' = "AttributeError"
            /\ UNCHANGED network_load_time
    /\ UNCHANGED <<keep_unfulfilled_requests, process_pages, flow, nflows, flows, errors,
                   user_agents, page_tracker, entries, dns, names_mentioned, page_times, ei>>
    /\ UNCHANGED pvars

-----------------------------------------------------------------------------
(* src/pcap.py: PcapParser.parse *)

\* A record of the reader: the libpcap header's caplen and len, what decoding
\* the frame does and what dispatcher.add does with the decoded frame.
Frames ==
    {[caplen |-> 1, len |-> 2, decode |-> "ok", add |-> "ok"],
     [caplen |-> 2, len |-> 2, decode |-> "ok", add |-> "ok"],
     [caplen |-> 2, len |-> 2, decode |-> "dpkt.Error", add |-> "ok"],
     [caplen |-> 2, len |-> 2, decode |-> "ok", add |-> "dpkt.Error"]}

\* line 77 with ">" for "!=": a frame cut short by the capture is not discarded
IsIncomplete_gt(hdr) == hdr.caplen > hdr.len

\* line 77
IsIncomplete(hdr) == hdr.caplen # hdr.len

\* PcapErrorRecord(packet, packet_ts, packet_number, internal_error); packet
\* is the position of the record in the input, 0 for None
PcapErrorRecord(packet, packet_number, internal_error) ==
    [packet |-> packet, packet_number |-> packet_number, internal_error |-> internal_error]

\* one turn of the loop of lines 72-100 on the record the reader yields
ParsePacket(packet) ==
    /\ ppc = "loop"
    /\ Len(packets) < MaxPackets
    /\ packets' = Append(packets, packet)
    /\ LET position == Len(packets) + 1
       IN  IF IsIncomplete(packet)
           THEN /\ perrors' = Append(perrors,
                       PcapErrorRecord(position, packet_count, "PcapIncompletePacketError"))
                \* continue: line 100 is not reached
                /\ UNCHANGED <<packet_count, dispatched>>
           ELSE /\ IF packet.decode # "ok"
                   THEN /\ perrors' = Append(perrors,
                               PcapErrorRecord(position, packet_count, packet.decode))
                        /\ UNCHANGED dispatched
                   ELSE /\ dispatched' = Append(dispatched, position)
                        /\ IF packet.add # "ok"
                           THEN perrors' = Append(perrors,
                                    PcapErrorRecord(position, packet_count, packet.add))
                           ELSE UNCHANGED perrors
                /\ packet_count' = packet_count + 1
    /\ UNCHANGED ppc
    /\ UNCHANGED svars

\* the reader has no more records
ReaderExhausted ==
    /\ ppc = "loop"
    /\ ppc' = "done"
    /\ UNCHANGED <<packets, packet_count, perrors, dispatched>>
    /\ UNCHANGED svars

\* the reader finds the file cut inside a record: lines 101-104
ReaderNeedData ==
    /\ ppc = "loop"
    /\ perrors' = Append(perrors, PcapErrorRecord(0, None, "dpkt.NeedData"))
    /\ ppc' = "done"
    /\ UNCHANGED <<packets, packet_count, dispatched>>
    /\ UNCHANGED svars

-----------------------------------------------------------------------------
(* Inputs *)

Request(pos, host, ts_connect, ts_connect_end, ts_start, ts_end) ==
    [flow |-> 0, pos |-> pos, host |-> host, user_agent |-> (host = "x"),
     ts_connect |-> ts_connect, ts_connect_end |-> ts_connect_end,
     ts_start |-> ts_start, ts_end |-> ts_end]

Response(pos, ts_start, ts_end) ==
    [flow |-> 0, pos |-> pos, ts_start |-> ts_start, ts_end |-> ts_end]

Dir(kind, msgs) == [kind |-> kind, msgs |-> msgs]
TcpFlow(fwd, rev) == [fwd |-> fwd, rev |-> rev]
EmptyDir == Dir("empty", <<>>)

\* a connection opened at c (None: not captured) whose requests, one per host
\* of hosts, are sent at once and answered n times one second later
QuickFlow(c, hosts, n) ==
    LET t == IF c = None THEN 0 ELSE c
        reqs == [i \in 1..Len(hosts) |-> Request(i, hosts[i], c, c, t, t)]
        resps == [i \in 1..n |-> Response(i, t + 1, t + 1)]
    IN  TcpFlow(IF reqs = <<>> THEN EmptyDir ELSE Dir("req", reqs),
                IF resps = <<>> THEN EmptyDir ELSE Dir("resp", resps))

Swap(tf) == TcpFlow(tf.rev, tf.fwd)

ConnectTimes == {None} \cup (0..MaxTs)

\* flows that are no HTTP, or raise while they are parsed
OddFlows ==
    {TcpFlow(Dir("junk", <<>>), Dir("junk", <<>>)),
     TcpFlow(Dir("err", <<>>), EmptyDir),
     TcpFlow(EmptyDir, EmptyDir)}

\* the flows of Spec: answered requests to one host, the connect time varying
SessionFlows ==
    {QuickFlow(c, [i \in 1..m |-> "x"], m) : c \in ConnectTimes, m \in 1..MaxMsgs}
    \cup {Swap(QuickFlow(0, <<"x">>, 1)), QuickFlow(0, <<"x">>, 0)}
    \cup OddFlows

HostSeqs == UNION {[1..m -> Hosts] : m \in 1..MaxMsgs}

\* the flows of SpecDns: answered requests to several hosts, on a connection
\* opened at 0, or one request on a connection opened later; or no HTTP
DnsFlows ==
    {QuickFlow(0, hs, Len(hs)) : hs \in HostSeqs}
    \cup {QuickFlow(1, <<h>>, 1) : h \in Hosts}
    \cup {TcpFlow(Dir("junk", <<>>), Dir("junk", <<>>))}

\* non-decreasing sequences of k timestamps from lo on
RECURSIVE Chains(_, _)
Chains(k, lo) ==
    IF k = 0 THEN {<<>>}
    ELSE UNION {{<<t>> \o c : c \in Chains(k - 1, t)} : t \in lo..MaxTs}

\* the requests of one direction, on the timestamps ch = s1, e1, s2, e2, ...
RequestsOn(c, ce, ch) ==
    [i \in 1..(Len(ch) \div 2) |-> Request(i, "x", c, ce, ch[2*i - 1], ch[2*i])]

ResponsesOn(ch) ==
    [i \in 1..(Len(ch) \div 2) |-> Response(i, ch[2*i - 1], ch[2*i])]

\* request directions: the connection's start is not captured, or precedes
\* the first request
RequestDirs ==
    {Dir("req", RequestsOn(None, None, ch)) :
        ch \in UNION {Chains(2*m, 0) : m \in 1..MaxMsgs}}
    \cup {Dir("req", RequestsOn(ch[1], ch[2], SubSeq(ch, 3, Len(ch)))) :
        ch \in UNION {Chains(2*m + 2, 0) : m \in 1..MaxMsgs}}

ResponseDirs ==
    {Dir("resp", ResponsesOn(ch)) : ch \in UNION {Chains(2*n, 0) : n \in 1..(MaxMsgs + 1)}}

\* the flows of SpecFlow: any timing of the messages of either direction
TimedFlows ==
    LET straight == {TcpFlow(f, r) : f \in RequestDirs \cup {EmptyDir},
                                     r \in ResponseDirs \cup {EmptyDir}}
    IN  straight \cup {Swap(tf) : tf \in straight} \cup OddFlows

Durations == 0..1
QueryLists == UNION {[1..q -> Durations] : q \in 1..MaxQueries}
NoDns == [h \in {} |-> <<>>]

\* dns.by_hostname: some hosts have queries
DnsTables ==
    UNION {[hs -> QueryLists] : hs \in SUBSET Hosts}

FewDnsTables == {NoDns, [h \in {"x"} |-> <<1>>]}

\* what getref may return for the pairs at hand
RefChoices(pages) ==
    [1..Len(Concat(flows)) -> IF process_pages THEN pages ELSE {NoPage}]

\* the flows of SpecPages: one answered request on a connection of any start,
\* two on one connection, an unanswered one; or no HTTP
PageFlows ==
    {QuickFlow(c, <<"x">>, 1) : c \in ConnectTimes}
    \cup {QuickFlow(1, <<"x", "x">>, 2), QuickFlow(2, <<"x">>, 0)}
    \cup OddFlows

-----------------------------------------------------------------------------
(* Specifications *)

ParserStart ==
    /\ packets = <<>>
    /\ packet_count = 1
    /\ perrors = <<>>
    /\ dispatched = <<>>
    /\ ppc = "loop"

SessionStart ==
    /\ flow = NoFlow
    /\ nflows = 0
    /\ flows = <<>>
    /\ errors = <<>>
    /\ user_agents = 0
    /\ page_tracker = [on |-> FALSE, pages |-> {}]
    /\ entries = <<>>
    /\ dns = NoDns
    /\ names_mentioned = {}
    /\ page_times = <<>>
    /\ network_load_time = <<>>
    /\ ei = 0
    /\ pc = "flows"
    /\ exc = ""

Init ==
    /\ ParserStart
    /\ SessionStart
    /\ keep_unfulfilled_requests \in BOOLEAN
    /\ process_pages \in BOOLEAN

\* HttpSession on flows of answered requests
Next ==
    \/ \E tf \in SessionFlows : ParseFlow(tf)
    \/ \E d \in FewDnsTables, refs \in RefChoices({"page_0"}) : BuildEntries(d, refs)
    \/ DnsStep
    \/ WritePages

Spec == Init /\ [][Next]_vars

\* HttpSession on flows to several hosts, with a dns index
NextDns ==
    \/ \E tf \in DnsFlows : ParseFlow(tf)
    \/ \E d \in DnsTables, refs \in RefChoices({"page_0"}) : BuildEntries(d, refs)
    \/ DnsStep
    \/ WritePages

InitDns ==
    /\ ParserStart
    /\ SessionStart
    /\ keep_unfulfilled_requests = TRUE
    /\ process_pages \in BOOLEAN

SpecDns == InitDns /\ [][NextDns]_vars

\* HttpSession on one flow, of any timing
NextFlow ==
    \/ nflows = 0 /\ \E tf \in TimedFlows : ParseFlow(tf)
    \/ \E d \in FewDnsTables, refs \in RefChoices({"page_0"}) : BuildEntries(d, refs)
    \/ DnsStep
    \/ WritePages

SpecFlow == Init /\ [][NextFlow]_vars

\* HttpSession with a page tracker that tells two pages apart
NextPages ==
    \/ \E tf \in PageFlows : ParseFlow(tf)
    \/ \E d \in FewDnsTables, refs \in RefChoices(Pages) : BuildEntries(d, refs)
    \/ DnsStep
    \/ WritePages

SpecPages == Init /\ [][NextPages]_vars

\* HttpSession.json_repr, the entries and pages of the log: log.pages is
\* there when self.page_tracker is true, with the load times __init__ wrote.
\* self.entries is in the order of ts_connect, which is that of ts_start, so
\* the stable sort on ts_start leaves it as it is
json_repr ==
    IF page_tracker.on
    THEN [entries |-> entries, pages |-> network_load_time]
    ELSE [entries |-> entries]

\* PcapParser.parse
InitParse ==
    /\ ParserStart
    /\ SessionStart
    /\ keep_unfulfilled_requests = FALSE
    /\ process_pages = FALSE

NextParse ==
    \/ \E packet \in Frames : ParsePacket(packet)
    \/ ReaderExhausted
    \/ ReaderNeedData

SpecParse == InitParse /\ [][NextParse]_vars

-----------------------------------------------------------------------------
(* Properties *)

\* what Flow.__init__ parsed of the tcp flow tf: the attempt that succeeded
Parsed(tf) ==
    LET first == parse_streams(tf.fwd, tf.rev)
    IN  IF first.success THEN first ELSE parse_streams(tf.rev, tf.fwd)

\* both attempts of Flow.__init__ fail on tf
NotHttp(tf) ==
    /\ parse_streams(tf.fwd, tf.rev).exc = "" /\ ~parse_streams(tf.fwd, tf.rev).success
    /\ parse_streams(tf.rev, tf.fwd).exc = "" /\ ~parse_streams(tf.rev, tf.fwd).success

\* the one flow of the session was parsed into an http.Flow
OneFlowParsed == nflows = 1 /\ Len(flows) = 1

\* index of the first response that starts after the first request, 0 if none
FirstAfter(R, S) ==
    IF R # <<>> /\ \E k \in 1..Len(S) : S[k].ts_start > R[1].ts_start
    THEN CHOOSE k \in 1..Len(S) :
            /\ S[k].ts_start > R[1].ts_start
            /\ \A h \in 1..(k - 1) : S[h].ts_start <= R[1].ts_start
    ELSE 0

Timings(e) ==
    {e.time_connecting, e.time_gap, e.time_sending, e.time_waiting, e.time_receiving,
     e.time, e.time_dnsing, e.total_time}

\* C1: with j the first response that starts after the first request, the
\* pair of request R[i] carries response S[j+i] when there is one, and no
\* response before S[j] is in a pair.
C1_PairsSkipOrphans ==
    OneFlowParsed =>
        LET R == Parsed(flow).requests
            S == Parsed(flow).responses
            j == FirstAfter(R, S)
            pairs == flows[1]
        IN  j # 0 =>
              /\ \A i \in 1..Len(R) :
                    j + i - 1 <= Len(S) =>
                        /\ i <= Len(pairs)
                        /\ pairs[i] = MessagePair(R[i], S[j + i - 1])
              /\ \A p \in 1..Len(pairs), k \in 1..(j - 1) : pairs[p].response # S[k]

\* C2: when a response starts after the first request, there is one pair per
\* request, in request order, and the requests beyond the pairable responses
\* carry no response.
C2_OnePairPerRequest ==
    OneFlowParsed =>
        LET R == Parsed(flow).requests
            S == Parsed(flow).responses
            j == FirstAfter(R, S)
            pairs == flows[1]
        IN  j # 0 =>
              /\ Len(pairs) = Len(R)
              /\ \A i \in 1..Len(pairs) :
                    /\ pairs[i].request = R[i]
                    /\ i > Len(S) - j + 1 => pairs[i].response = NoResponse

\* the tcp flow holds one request and no response
OneRequestNoResponse(tf) ==
    /\ tf.fwd.kind = "req" /\ Len(tf.fwd.msgs) = 1
    /\ tf.rev.kind = "empty"

\* C3: the session of one flow with one request and no response has one
\* entry, without response and with time_waiting -1, when unfulfilled
\* requests are kept, and no entry when they are not.
C3_UnfulfilledRequest ==
    (pc = "done" /\ nflows = 1 /\ OneRequestNoResponse(flow)) =>
        IF keep_unfulfilled_requests
        THEN /\ Len(entries) = 1
             /\ entries[1].response = NoResponse
             /\ entries[1].time_waiting = Unknown
        ELSE entries = <<>>

\* C4: the time of an entry with a response runs from the connect to the end
\* of the response, from the start of the request when the connect is unknown.
C4_TimeFromConnect ==
    \A i \in 1..Len(entries) :
        LET e == entries[i]
        IN  e.response # NoResponse =>
                e.time = IF e.request.ts_connect # None
                         THEN MsPerSecond * (e.response.ts_end - e.request.ts_connect)
                         ELSE MsPerSecond * (e.response.ts_end - e.request.ts_start)

Decodable(ps) ==
    {i \in 1..Len(ps) : ps[i].caplen = ps[i].len /\ ps[i].decode = "ok"}

\* the error records of the frame at position i
ErrorsOf(i) == {k \in 1..Len(perrors) : perrors[k].packet = i}

\* C6: the records that are complete and decode are handed to the dispatcher
\* once each, in input order; every other record is not, and leaves one error
\* record; a reader cut short leaves one error record and ends the loop.
C6_BadFramesAreSkipped ==
    /\ Range(dispatched) = Decodable(packets)
    /\ \A a, b \in 1..Len(dispatched) : a < b => dispatched[a] < dispatched[b]
    /\ \A i \in 1..Len(packets) :
          i \notin Decodable(packets) => Cardinality(ErrorsOf(i)) = 1
    /\ \A i \in 1..Len(packets) : Cardinality(ErrorsOf(i)) <= 1
    /\ \A k \in 1..Len(perrors) :
          perrors[k].internal_error = "dpkt.NeedData" => (k = Len(perrors) /\ ppc = "done")

\* a good record was dispatched after an incomplete and an undecodable one
C6_Witness ==
    /\ Len(packets) >= 3
    /\ \E i, k \in 1..Len(packets) :
          /\ packets[i].caplen # packets[i].len
          /\ packets[k].decode # "ok"
    /\ Len(packets) \in Range(dispatched)
    /\ Len(perrors) >= 2

\* C7: the packet_number of an error record of a frame is the 1-based
\* position of the frame in the input.
C7_ErrorCarriesFrameIndex ==
    \A k \in 1..Len(perrors) :
        perrors[k].packet # 0 => perrors[k].packet_number = perrors[k].packet

\* a precedes b in the concatenation of the flows' pairs
ConcatBefore(a, b) ==
    \/ a.flow < b.flow
    \/ a.flow = b.flow /\ a.pos < b.pos

\* C8 as stated: ascending ts_connect, the entries without ts_connect last,
\* equal ts_connect in the order of the concatenation.
C8_SortedNoneLast ==
    pc = "done" =>
        \A i, k \in 1..Len(entries) :
            i < k =>
                LET a == entries[i].request
                    b == entries[k].request
                IN  /\ b.ts_connect # None => (a.ts_connect # None /\ a.ts_connect <= b.ts_connect)
                    /\ a.ts_connect = b.ts_connect => ConcatBefore(a, b)

\* C8, amended: ascending ts_connect, the entries without ts_connect first,
\* equal ts_connect in the order of the concatenation.
C8_SortedNoneFirst ==
    pc = "done" =>
        \A i, k \in 1..Len(entries) :
            i < k =>
                LET a == entries[i].request
                    b == entries[k].request
                IN  /\ a.ts_connect # None => (b.ts_connect # None /\ a.ts_connect <= b.ts_connect)
                    /\ a.ts_connect = b.ts_connect => ConcatBefore(a, b)

\* a finished session whose entries are not in the order of the flows: one
\* without ts_connect leads, two of different flows share a ts_connect, and
\* an entry of the second flow precedes one of the first
C8_Witness ==
    /\ pc = "done"
    /\ Len(entries) >= 3
    /\ entries[1].request.ts_connect = None
    /\ \E i, k \in 1..Len(entries) :
          /\ i < k
          /\ entries[i].request.ts_connect = entries[k].request.ts_connect
          /\ entries[i].request.flow # entries[k].request.flow
    /\ \E i, k \in 1..Len(entries) :
          i < k /\ entries[i].request.flow > entries[k].request.flow

\* C9: every timing of every entry is -1 or not negative.
C9_TimingsNotNegative ==
    \A i \in 1..Len(entries) : \A t \in Timings(entries[i]) : t = Unknown \/ t >= 0

\* C10: a flow that fails both attempts leaves one error record in
\* self.errors, adds no Flow, and the loop goes on to the next flow.
C10_NotHttpIsRecorded ==
    [][(pc = "flows" /\ nflows' = nflows + 1 /\ NotHttp(flow')) =>
          /\ Len(errors') = Len(errors) + 1
          /\ flows' = flows
          /\ pc' = "flows"]_vars

\* the entries of page p
EntriesOf(p) == {i \in 1..Len(entries) : entries[i].pageref = p}

SetMax(S) == CHOOSE x \in S : \A y \in S : y <= x
SetMin(S) == CHOOSE x \in S : \A y \in S : x <= y

\* without page tracking the construction does not stop at the page loop,
\* there is no tracker, no pageref, no load time, and no log.pages
PagesOff ==
    ~process_pages =>
        /\ ~(pc = "raised" /\ exc = "AttributeError")
        /\ ~page_tracker.on
        /\ \A i \in 1..Len(entries) : entries[i].pageref = NoPage
        /\ network_load_time = <<>>
        /\ "pages" \notin DOMAIN json_repr

\* with page tracking log.pages is there, and a page with entries has the
\* load time max(ts_start + total_time) - min(ts_start) over its entries
PagesOn ==
    (process_pages /\ pc = "done") =>
        /\ "pages" \in DOMAIN json_repr
        /\ \A p \in page_tracker.pages :
              EntriesOf(p) # {} =>
                  /\ p \in DOMAIN network_load_time
                  /\ network_load_time[p] =
                        SetMax({entries[i].ts_start + entries[i].total_time : i \in EntriesOf(p)})
                        - SetMin({entries[i].ts_start : i \in EntriesOf(p)})

\* C11: page tracking is optional. With process_pages false the
\* construction of HttpSession completes for any flows, with no page tracker,
\* no pageref on an entry, no network load time written and no log.pages in
\* the output; with process_pages true log.pages is present and each page
\* with an entry has network_load_time = max(ts_start + total_time) minus
\* min(ts_start) over its entries.
C11_PageTrackingOptional ==
    PagesOff /\ PagesOn

====
